---- MODULE Spec2Model ----
(***************************************************************************)
(* Model of scripts/tulsa_council_document_scraper.py: the traversal       *)
(* driver download_documents, the page extractor extract_pdfs and the      *)
(* address decrement decrement_item_in_url.                                *)
(*                                                                         *)
(* Text (labels, query values, filter words) is a sequence of one-         *)
(* character tokens.  An optional value (Python None or a value) is a      *)
(* sequence of length 0 or 1.  The remote site and the filesystem are the  *)
(* environment: every response and every failure is a choice.              *)
(***************************************************************************)
EXTENDS Naturals, Integers, Sequences, FiniteSets, TLC

VARIABLES start_url, max_pages, filter_word, current_url, page_count,
          total_downloads, pc, soup, file_elements, idx, download_count,
          pdf_response, ret, dir_exists, fs, log, trace

vars == <<start_url, max_pages, filter_word, current_url, page_count,
          total_downloads, pc, soup, file_elements, idx, download_count,
          pdf_response, ret, dir_exists, fs, log, trace>>

\* ---------------------------------------------------------------- bounds
MaxItem == 3
MaxCeil == 5
MaxQuery == 3
MaxElems == 4
MaxLabel == 3

\* ------------------------------------------------------- optional values
None == <<>>
Some(x) == <<x>>
Val(o) == o[1]

\* ------------------------------------------------------------------ text
Digits == <<"0", "1", "2", "3", "4", "5", "6", "7", "8", "9">>

IsDigit(c) == \E d \in 1..10 : Digits[d] = c

DigitVal(c) == (CHOOSE d \in 1..10 : Digits[d] = c) - 1

\* str.lower() on the characters used in labels and filter words
Lower(c) ==
    CASE c = "M" -> "m"
      [] c = "I" -> "i"
      [] c = "A" -> "a"
      [] OTHER -> c

LowerStr(s) == [i \in 1..Len(s) |-> Lower(s[i])]

\* Python's `sub in s`
Contains(sub, s) ==
    \E i \in 0..(Len(s) - Len(sub)) : SubSeq(s, i + 1, i + Len(sub)) = sub

RECURSIVE LStrip(_)
LStrip(s) == IF s # <<>> /\ Head(s) = " " THEN LStrip(Tail(s)) ELSE s

RECURSIVE RStrip(_)
RStrip(s) ==
    IF s # <<>> /\ s[Len(s)] = " " THEN RStrip(SubSeq(s, 1, Len(s) - 1)) ELSE s

\* str.strip()
Strip(s) == RStrip(LStrip(s))

\* ------------------------------------------------------------- addresses
\* urllib's unquote / quote_plus on one character token: "%78" is the
\* percent-encoded form of "x"; every other token used here is unreserved.
Unquote(c) == IF c = "%78" THEN "x" ELSE c

UnquoteStr(s) == [i \in 1..Len(s) |-> Unquote(s[i])]

QuotePlus(c) == c

QuotePlusStr(s) == [i \in 1..Len(s) |-> QuotePlus(s[i])]

\* int(text): optional sign followed by one or more decimal digits
IsIntStr(s) ==
    LET body == IF s # <<>> /\ s[1] = "-" THEN Tail(s) ELSE s
    IN  body # <<>> /\ \A i \in 1..Len(body) : IsDigit(body[i])

RECURSIVE NatOf(_)
NatOf(s) ==
    IF s = <<>> THEN 0
    ELSE 10 * NatOf(SubSeq(s, 1, Len(s) - 1)) + DigitVal(s[Len(s)])

IntOf(s) == IF s[1] = "-" THEN 0 - NatOf(Tail(s)) ELSE NatOf(s)

\* str(n) for n >= 0
RECURSIVE StrOf(_)
StrOf(n) ==
    IF n < 10 THEN <<Digits[n + 1]>>
    ELSE Append(StrOf(n \div 10), Digits[(n % 10) + 1])

\* parse_qsl with keep_blank_values=False: a pair whose value is blank is
\* dropped; names and values are percent-decoded.
parse_qsl(query) ==
    LET kept == SelectSeq(query, LAMBDA p : p[2] # <<>>)
    IN  [i \in 1..Len(kept) |-> <<kept[i][1], UnquoteStr(kept[i][2])>>]

\* parse_qs: a dict, in order of first appearance of each name, of the list
\* of that name's values.  Modelled as a sequence of <<name, values>>.
RECURSIVE GroupPairs(_, _)
GroupPairs(pairs, acc) ==
    IF pairs = <<>> THEN acc
    ELSE LET k == Head(pairs)[1]
             v == Head(pairs)[2]
             hit == {j \in 1..Len(acc) : acc[j][1] = k}
         IN  IF hit = {}
             THEN GroupPairs(Tail(pairs), Append(acc, <<k, <<v>>>>))
             ELSE GroupPairs(Tail(pairs),
                    [j \in 1..Len(acc) |->
                       IF j \in hit THEN <<k, Append(acc[j][2], v)>> ELSE acc[j]])

parse_qs(query) == GroupPairs(parse_qsl(query), <<>>)

HasKey(query_params, k) == \E j \in 1..Len(query_params) : query_params[j][1] = k

Lookup(query_params, k) ==
    query_params[CHOOSE j \in 1..Len(query_params) : query_params[j][1] = k][2]

\* query_params[k] = [v]
SetKey(query_params, k, v) ==
    [j \in 1..Len(query_params) |->
       IF query_params[j][1] = k THEN <<k, <<v>>>> ELSE query_params[j]]

\* urlencode(query_params, doseq=True): name=value for every value of every
\* name, in dict order.
RECURSIVE urlencode(_)
urlencode(query_params) ==
    IF query_params = <<>> THEN <<>>
    ELSE LET k == Head(query_params)[1]
             vs == Head(query_params)[2]
         IN  [i \in 1..Len(vs) |-> <<k, QuotePlusStr(vs[i])>>]
               \o urlencode(Tail(query_params))

decrement_diag_silent(url) ==
    LET query_params == parse_qs(url.query)
    IN  IF HasKey(query_params, "item") THEN "" ELSE "no_item"

\* The diagnostic decrement_item_in_url logs: "" when it logs nothing.
decrement_diag(url) ==
    LET query_params == parse_qs(url.query)
    IN  IF HasKey(query_params, "item")
        THEN IF IsIntStr(Lookup(query_params, "item")[1]) THEN "" ELSE "parse_error"
        ELSE "no_item"

decrement_item_in_url_nofloor(url) ==
    LET query_params == parse_qs(url.query)
    IN  IF HasKey(query_params, "item")
        THEN IF IsIntStr(Lookup(query_params, "item")[1])
             THEN LET item_value == IntOf(Lookup(query_params, "item")[1])
                  IN  IF item_value <= 0 THEN Some(url)
                      ELSE Some([url EXCEPT !.query =
                             urlencode(SetKey(query_params, "item",
                                              StrOf(item_value - 1)))])
             ELSE None
        ELSE None

decrement_item_in_url_by2(url) ==
    LET query_params == parse_qs(url.query)
    IN  IF HasKey(query_params, "item")
        THEN IF IsIntStr(Lookup(query_params, "item")[1])
             THEN LET item_value == IntOf(Lookup(query_params, "item")[1])
                  IN  IF item_value <= 1 THEN None
                      ELSE Some([url EXCEPT !.query =
                             urlencode(SetKey(query_params, "item",
                                              StrOf(item_value - 2)))])
             ELSE None
        ELSE None

decrement_item_in_url_floor0(url) ==
    LET query_params == parse_qs(url.query)
    IN  IF HasKey(query_params, "item")
        THEN IF IsIntStr(Lookup(query_params, "item")[1])
             THEN LET item_value == IntOf(Lookup(query_params, "item")[1])
                  IN  IF item_value <= 0 THEN None
                      ELSE Some([url EXCEPT !.query =
                             urlencode(SetKey(query_params, "item",
                                              StrOf(item_value - 1)))])
             ELSE None
        ELSE None

decrement_item_in_url(url) ==
    LET query_params == parse_qs(url.query)
    IN  IF HasKey(query_params, "item")
        THEN IF IsIntStr(Lookup(query_params, "item")[1])
             THEN LET item_value == IntOf(Lookup(query_params, "item")[1])
                  IN  IF item_value <= 1 THEN None
                      ELSE Some([url EXCEPT !.query =
                             urlencode(SetKey(query_params, "item",
                                              StrOf(item_value - 1)))])
             ELSE None
        ELSE None

\* ------------------------------------------------------------ parameters
Url(q) ==
    [scheme |-> "https", netloc |-> "www.cityoftulsa.org",
     path |-> "/apps/CouncilDocuments", query |-> q]

ItemUrl(n) == Url(<< <<"item", StrOf(n)>> >>)

\* --start-url values tried by the driver
StartUrls ==
    {ItemUrl(n) : n \in 1..MaxItem}
      \cup {Url(<< <<"a", <<"1">>>> >>), Url(<< <<"item", <<"x">>>> >>)}

\* --max-pages: absent, or an int (argparse accepts 0)
MaxPagesValues == {None} \cup {Some(m) : m \in 0..MaxCeil}

\* --filter / --all-documents
FilterWords == {None, Some(<<"m", "I">>)}

FilterWordsExtract == FilterWords \cup {Some(<<>>)}

OutputDir == <<"o">>

\* ------------------------------------------------------------ the remote
FileName(t) == [cls |-> "fileName", text |-> t]

PdfString(t) == [cls |-> "pdfString", text |-> t]

Labels == {<<"M", "i", "/">>, <<" ", "M", "i", "_">>, <<"A", "g">>, <<" ">>}

DocTexts == {<<"7">>, <<"8", " ">>}

Elements == {FileName(t) : t \in Labels} \cup {PdfString(t) : t \in DocTexts}

SeqsUpTo(S, n) == UNION {[1..k -> S] : k \in 0..n}

\* documents the site may serve to one call of extract_pdfs
RichPages == SeqsUpTo(Elements, MaxElems)

\* documents the site may serve during a traversal
SimplePages ==
    { <<>>,
      <<PdfString(<<"7">>), FileName(<<"M", "i", "/">>)>>,
      <<FileName(<<"M", "i", "/">>), PdfString(<<"7">>)>>,
      <<FileName(<<" ", "M", "i", "_">>), PdfString(<<"8", " ">>)>>,
      <<FileName(<<"A", "g">>), PdfString(<<"7">>)>> }

\* body served for a document identifier
Body(document_id) == <<"pdf">> \o document_id

\* f"...DocumentIdentifiers={document_id}"
PdfUrl(document_id) ==
    [scheme |-> "https", netloc |-> "www.cityoftulsa.org",
     path |-> "/apps/COTDisplayDocument",
     query |-> << <<"DocumentType", <<"CouncilDocument">>>>,
                  <<"DocumentIdentifiers", document_id>> >>]

\* ------------------------------------------------------- page extraction
\* soup.find_all('div', class_='fileName'): positions in document order
RECURSIVE find_all(_, _)
find_all(doc, from) ==
    IF from > Len(doc) THEN <<>>
    ELSE IF doc[from].cls = "fileName"
         THEN <<from>> \o find_all(doc, from + 1)
         ELSE find_all(doc, from + 1)

find_next_last(doc, pos) ==
    LET after == {j \in (pos + 1)..Len(doc) : doc[j].cls = "pdfString"}
    IN  IF after = {} THEN None
        ELSE Some(CHOOSE j \in after : \A k \in after : j >= k)

\* file_element.find_next('div', class_='pdfString'): position or None
find_next(doc, pos) ==
    LET after == {j \in (pos + 1)..Len(doc) : doc[j].cls = "pdfString"}
    IN  IF after = {} THEN None
        ELSE Some(CHOOSE j \in after : \A k \in after : j <= k)

Truthy(o) == IF o = None THEN FALSE ELSE Val(o) # <<>>

should_download_cased(filename) ==
    IF Truthy(filter_word)
    THEN Contains(Val(filter_word), filename)
    ELSE TRUE

\* lines 64-66
should_download(filename) ==
    IF Truthy(filter_word)
    THEN Contains(LowerStr(Val(filter_word)), LowerStr(filename))
    ELSE TRUE

InvalidChars == {"\\", "/", "*", "?", ":", "\"", "<", ">", "|"}

clean_filename_nocolon(filename) ==
    [i \in 1..Len(filename) |->
       IF filename[i] \in InvalidChars \ {":"} THEN "_" ELSE filename[i]]

clean_filename_noslash(filename) ==
    [i \in 1..Len(filename) |->
       IF filename[i] \in InvalidChars \ {"/"} THEN "_" ELSE filename[i]]

\* re.sub(r'[\\/*?:"<>|]', "_", filename)
clean_filename(filename) ==
    [i \in 1..Len(filename) |->
       IF filename[i] \in InvalidChars THEN "_" ELSE filename[i]]

\* os.path.join: a name that starts with the separator replaces the directory
os_path_join(dir, name) ==
    IF name # <<>> /\ name[1] = "/" THEN name ELSE dir \o <<"/">> \o name

\* paths that name the output directory itself or its parent: open(path,
\* 'wb') raises IsADirectoryError on them
IsDirectory(path) ==
    path \in {os_path_join(OutputDir, <<>>), os_path_join(OutputDir, <<".">>),
              os_path_join(OutputDir, <<".", ".">>)}

Put(f, k, v) == [x \in DOMAIN f \cup {k} |-> IF x = k THEN v ELSE f[x]]

Logged(level, msg) == Append(log, [level |-> level, msg |-> msg])

CurPos == file_elements[idx]

CurName == Strip(soup[CurPos].text)

CurDocId == Strip(soup[Val(find_next(soup, CurPos))].text)

InLoop == pc = "files" /\ idx <= Len(file_elements)

Params == <<start_url, max_pages, filter_word>>

Driver == <<current_url, page_count, total_downloads>>

Page == <<soup, file_elements, idx, download_count, pdf_response>>

\* lines 38-39, directory present
DirPresent ==
    /\ pc = "makedirs" /\ dir_exists
    /\ pc' = "get_page"
    /\ UNCHANGED <<Params, Driver, Page, ret, dir_exists, fs, log, trace>>

\* lines 38-39, os.makedirs succeeds
MakedirsOk ==
    /\ pc = "makedirs" /\ ~dir_exists
    /\ dir_exists' = TRUE
    /\ pc' = "get_page"
    /\ UNCHANGED <<Params, Driver, Page, ret, fs, log, trace>>

\* lines 38-39, os.makedirs raises OSError: not caught anywhere
MakedirsFail ==
    /\ pc = "makedirs" /\ ~dir_exists
    /\ pc' = "raised"
    /\ UNCHANGED <<Params, Driver, Page, ret, dir_exists, fs, log, trace>>

GetPageFail_stop ==
    /\ pc = "get_page"
    /\ trace' = trace \o <<[op |-> "page", url |-> Val(current_url),
                             ok |-> FALSE, doc |-> <<>>],
                            [op |-> "return", value |-> 0]>>
    /\ log' = log \o <<[level |-> "info", msg |-> "accessing"],
                       [level |-> "error", msg |-> "error_accessing"]>>
    /\ ret' = 0
    /\ pc' = "report"
    /\ UNCHANGED <<Params, Driver, Page, dir_exists, fs>>

\* lines 42-44 and 101-103: requests.get / raise_for_status fails
GetPageFail ==
    /\ pc = "get_page"
    /\ trace' = trace \o <<[op |-> "page", url |-> Val(current_url),
                             ok |-> FALSE, doc |-> <<>>],
                            [op |-> "return", value |-> 0]>>
    /\ log' = log \o <<[level |-> "info", msg |-> "accessing"],
                       [level |-> "error", msg |-> "error_accessing"]>>
    /\ ret' = 0
    /\ pc' = "accumulate"
    /\ UNCHANGED <<Params, Driver, Page, dir_exists, fs>>

\* lines 42-57: the page is fetched and parsed
GetPageOk(Pages) ==
    /\ pc = "get_page"
    /\ \E doc \in Pages :
         /\ trace' = Append(trace, [op |-> "page", url |-> Val(current_url),
                                    ok |-> TRUE, doc |-> doc])
                        \o (IF find_all(doc, 1) = <<>>
                            THEN <<[op |-> "return", value |-> 0]>>
                            ELSE <<>>)
         /\ soup' = doc
         /\ file_elements' = find_all(doc, 1)
         /\ IF find_all(doc, 1) = <<>>
            THEN /\ log' = log \o <<[level |-> "info", msg |-> "accessing"],
                                    [level |-> "info", msg |-> "no_files"]>>
                 /\ ret' = 0
                 /\ pc' = "accumulate"
                 /\ UNCHANGED <<idx, download_count>>
            ELSE /\ log' = Logged("info", "accessing")
                 /\ download_count' = 0
                 /\ idx' = 1
                 /\ pc' = "files"
                 /\ UNCHANGED ret
    /\ UNCHANGED <<Params, Driver, pdf_response, dir_exists, fs>>

\* lines 59-68 and 96-97: the label does not contain the filter word
SkipFiltered ==
    /\ InLoop
    /\ ~should_download(CurName)
    /\ log' = Logged("debug", "skipping")
    /\ idx' = idx + 1
    /\ UNCHANGED <<Params, Driver, pc, soup, file_elements, download_count,
                   pdf_response, ret, dir_exists, fs, trace>>

\* lines 68-71: no pdfString element follows the fileName element
SkipNoId ==
    /\ InLoop
    /\ should_download(CurName)
    /\ find_next(soup, CurPos) = None
    /\ idx' = idx + 1
    /\ UNCHANGED <<Params, Driver, pc, soup, file_elements, download_count,
                   pdf_response, ret, dir_exists, fs, log, trace>>

GetPdfFail_abort ==
    /\ InLoop
    /\ should_download(CurName)
    /\ find_next(soup, CurPos) # None
    /\ trace' = trace \o <<[op |-> "file", i |-> idx,
                             url |-> PdfUrl(CurDocId), ok |-> FALSE],
                            [op |-> "return", value |-> download_count]>>
    /\ log' = log \o <<[level |-> "info", msg |-> "downloading"],
                       [level |-> "error", msg |-> "error_downloading"]>>
    /\ ret' = download_count
    /\ pc' = "accumulate"
    /\ UNCHANGED <<Params, Driver, soup, file_elements, idx, download_count,
                   pdf_response, dir_exists, fs>>

\* lines 72-82 and 94-95: the file's fetch fails
GetPdfFail ==
    /\ InLoop
    /\ should_download(CurName)
    /\ find_next(soup, CurPos) # None
    /\ trace' = Append(trace, [op |-> "file", i |-> idx,
                               url |-> PdfUrl(CurDocId), ok |-> FALSE])
    /\ log' = log \o <<[level |-> "info", msg |-> "downloading"],
                       [level |-> "error", msg |-> "error_downloading"]>>
    /\ idx' = idx + 1
    /\ UNCHANGED <<Params, Driver, pc, soup, file_elements, download_count,
                   pdf_response, ret, dir_exists, fs>>

\* lines 72-82: the file's fetch succeeds
GetPdfOk ==
    /\ InLoop
    /\ should_download(CurName)
    /\ find_next(soup, CurPos) # None
    /\ trace' = Append(trace, [op |-> "file", i |-> idx,
                               url |-> PdfUrl(CurDocId), ok |-> TRUE])
    /\ log' = Logged("info", "downloading")
    /\ pdf_response' = Some(Body(CurDocId))
    /\ pc' = "save"
    /\ UNCHANGED <<Params, Driver, soup, file_elements, idx, download_count,
                   ret, dir_exists, fs>>

OutputPath == os_path_join(OutputDir, clean_filename(CurName))

\* lines 85-89: open(output_path, 'wb') raises OSError (always when the
\* path is a directory)
OpenFail ==
    /\ pc = "save"
    /\ pc' = "raised"
    /\ UNCHANGED <<Params, Driver, Page, ret, dir_exists, fs, log, trace>>

\* lines 85-90: the file is created or truncated, then file.write raises
WriteFail ==
    /\ pc = "save"
    /\ ~IsDirectory(OutputPath)
    /\ fs' = Put(fs, OutputPath, <<>>)
    /\ pc' = "raised"
    /\ UNCHANGED <<Params, Driver, Page, ret, dir_exists, log, trace>>

SaveOk_keepfirst ==
    /\ pc = "save"
    /\ ~IsDirectory(OutputPath)
    /\ fs' = IF OutputPath \in DOMAIN fs THEN fs
             ELSE Put(fs, OutputPath, Val(pdf_response))
    /\ trace' = Append(trace, [op |-> "write", i |-> idx,
                               path |-> OutputPath, body |-> Val(pdf_response)])
    /\ log' = Logged("info", "downloaded")
    /\ download_count' = download_count + 1
    /\ idx' = idx + 1
    /\ pc' = "files"
    /\ UNCHANGED <<Params, Driver, soup, file_elements, pdf_response, ret,
                   dir_exists>>

\* lines 85-93: the file is written
SaveOk ==
    /\ pc = "save"
    /\ ~IsDirectory(OutputPath)
    /\ fs' = Put(fs, OutputPath, Val(pdf_response))
    /\ trace' = Append(trace, [op |-> "write", i |-> idx,
                               path |-> OutputPath, body |-> Val(pdf_response)])
    /\ log' = Logged("info", "downloaded")
    /\ download_count' = download_count + 1
    /\ idx' = idx + 1
    /\ pc' = "files"
    /\ UNCHANGED <<Params, Driver, soup, file_elements, pdf_response, ret,
                   dir_exists>>

\* line 99
ReturnCount ==
    /\ pc = "files" /\ idx > Len(file_elements)
    /\ ret' = download_count
    /\ trace' = Append(trace, [op |-> "return", value |-> download_count])
    /\ pc' = "accumulate"
    /\ UNCHANGED <<Params, Driver, Page, dir_exists, fs, log>>

\* ------------------------------------------------------ traversal driver
\* `if max_pages`: set and not 0
CeilingSet == IF max_pages = None THEN FALSE ELSE Val(max_pages) # 0

LoopCond_inclusive ==
    /\ current_url # None
    /\ (IF max_pages = None THEN TRUE ELSE page_count <= Val(max_pages))

LoopCond_truthy ==
    /\ current_url # None
    /\ (IF CeilingSet THEN page_count < Val(max_pages) ELSE TRUE)

\* line 155
LoopCond ==
    /\ current_url # None
    /\ (IF max_pages = None THEN TRUE ELSE page_count < Val(max_pages))

\* lines 155-163: the loop is entered and extract_pdfs is called
EnterLoop ==
    /\ pc = "while"
    /\ LoopCond
    /\ page_count' = page_count + 1
    /\ log' = Logged("info", "processing_page")
    /\ trace' = Append(trace, [op |-> "call", url |-> Val(current_url)])
    /\ pc' = "makedirs"
    /\ UNCHANGED <<Params, current_url, total_downloads, Page, ret,
                   dir_exists, fs>>

\* line 155: the loop ends
ExitLoop ==
    /\ pc = "while"
    /\ ~LoopCond
    /\ pc' = "report"
    /\ UNCHANGED <<Params, Driver, Page, ret, dir_exists, fs, log, trace>>

Accumulate_overwrite ==
    /\ pc = "accumulate"
    /\ total_downloads' = ret
    /\ pc' = "decrement"
    /\ UNCHANGED <<Params, current_url, page_count, Page, ret, dir_exists,
                   fs, log, trace>>

\* lines 163-164
Accumulate ==
    /\ pc = "accumulate"
    /\ total_downloads' = total_downloads + ret
    /\ pc' = "decrement"
    /\ UNCHANGED <<Params, current_url, page_count, Page, ret, dir_exists,
                   fs, log, trace>>

\* line 167
Decrement ==
    /\ pc = "decrement"
    /\ current_url' = decrement_item_in_url(Val(current_url))
    /\ log' = IF decrement_diag(Val(current_url)) = "" THEN log
              ELSE Logged("error", decrement_diag(Val(current_url)))
    /\ pc' = "delay"
    /\ UNCHANGED <<Params, page_count, total_downloads, Page, ret,
                   dir_exists, fs, trace>>

\* lines 170-171, the next address exists
Sleep ==
    /\ pc = "delay"
    /\ current_url # None
    /\ trace' = Append(trace, [op |-> "sleep"])
    /\ pc' = "while"
    /\ UNCHANGED <<Params, Driver, Page, ret, dir_exists, fs, log>>

\* line 170, no next address
NoSleep ==
    /\ pc = "delay"
    /\ current_url = None
    /\ pc' = "while"
    /\ UNCHANGED <<Params, Driver, Page, ret, dir_exists, fs, log, trace>>

Report_independent ==
    /\ pc = "report"
    /\ log' = (IF CeilingSet /\ page_count >= Val(max_pages)
               THEN Logged("info", "reached_maximum")
               ELSE log)
                \o (IF current_url = None
                    THEN <<[level |-> "info", msg |-> "no_more_pages"]>>
                    ELSE <<>>)
                \o <<[level |-> "info", msg |-> "download_complete",
                      pages |-> page_count, downloads |-> total_downloads]>>
    /\ pc' = "done"
    /\ UNCHANGED <<Params, Driver, Page, ret, dir_exists, fs, trace>>

\* lines 173-178
Report ==
    /\ pc = "report"
    /\ log' = (IF CeilingSet /\ page_count >= Val(max_pages)
               THEN Logged("info", "reached_maximum")
               ELSE IF current_url = None
                    THEN Logged("info", "no_more_pages")
                    ELSE log)
                \o <<[level |-> "info", msg |-> "download_complete",
                      pages |-> page_count, downloads |-> total_downloads]>>
    /\ pc' = "done"
    /\ UNCHANGED <<Params, Driver, Page, ret, dir_exists, fs, trace>>

\* -------------------------------------------------------- specifications
\* download_documents(start_url, OutputDir, max_pages, delay, filter_word)
Init ==
    /\ start_url \in StartUrls
    /\ max_pages \in MaxPagesValues
    /\ filter_word \in FilterWords
    /\ current_url = Some(start_url)
    /\ page_count = 0
    /\ total_downloads = 0
    /\ pc = "while"
    /\ soup = <<>>
    /\ file_elements = <<>>
    /\ idx = 0
    /\ download_count = 0
    /\ pdf_response = None
    /\ ret = 0
    /\ dir_exists \in BOOLEAN
    /\ fs = <<>>
    /\ log = <<>>
    /\ trace = <<>>

Next ==
    \/ EnterLoop
    \/ ExitLoop
    \/ DirPresent
    \/ MakedirsOk
    \/ MakedirsFail
    \/ GetPageFail
    \/ GetPageOk(SimplePages)
    \/ SkipFiltered
    \/ SkipNoId
    \/ GetPdfFail
    \/ GetPdfOk
    \/ OpenFail
    \/ WriteFail
    \/ SaveOk
    \/ ReturnCount
    \/ Accumulate
    \/ Decrement
    \/ Sleep
    \/ NoSleep
    \/ Report

Spec == Init /\ [][Next]_vars

\* The traversal run with the default kind of filter (a filter word is
\* given).  The script is one sequential thread: a step that can be taken
\* is taken.
InitFiltered == Init /\ filter_word # None

FairSpec == InitFiltered /\ [][Next]_vars /\ WF_vars(Next)

\* One call extract_pdfs(current_url, OutputDir, filter_word), taken at
\* line 38 in the first iteration of the driver's loop.
InitExtract ==
    /\ start_url = ItemUrl(1)
    /\ max_pages = None
    /\ filter_word \in FilterWordsExtract
    /\ current_url = Some(start_url)
    /\ page_count = 1
    /\ total_downloads = 0
    /\ pc = "makedirs"
    /\ soup = <<>>
    /\ file_elements = <<>>
    /\ idx = 0
    /\ download_count = 0
    /\ pdf_response = None
    /\ ret = 0
    /\ dir_exists \in BOOLEAN
    /\ fs = <<>>
    /\ log = <<[level |-> "info", msg |-> "processing_page"]>>
    /\ trace = <<[op |-> "call", url |-> start_url]>>

NextExtract ==
    \/ DirPresent
    \/ MakedirsOk
    \/ MakedirsFail
    \/ GetPageFail
    \/ GetPageOk(RichPages)
    \/ SkipFiltered
    \/ SkipNoId
    \/ GetPdfFail
    \/ GetPdfOk
    \/ OpenFail
    \/ WriteFail
    \/ SaveOk
    \/ ReturnCount

SpecExtract == InitExtract /\ [][NextExtract]_vars

\* Addresses given to decrement_item_in_url
QueryNames == {"item", "a"}

QueryValues ==
    { <<>>, <<"0">>, <<"1">>, <<"2">>, <<"3">>, <<"1", "0">>, <<"0", "3">>,
      <<"-", "1">>, <<"x">>, <<"%78">> }

Queries == SeqsUpTo(QueryNames \X QueryValues, MaxQuery)

\* One call decrement_item_in_url(current_url), taken at line 167 in the
\* first iteration of the driver's loop, the page's fetch having failed.
InitDecrement ==
    /\ start_url \in {Url(q) : q \in Queries}
    /\ max_pages = None
    /\ filter_word = None
    /\ current_url = Some(start_url)
    /\ page_count = 1
    /\ total_downloads = 0
    /\ pc = "decrement"
    /\ soup = <<>>
    /\ file_elements = <<>>
    /\ idx = 0
    /\ download_count = 0
    /\ pdf_response = None
    /\ ret = 0
    /\ dir_exists = TRUE
    /\ fs = <<>>
    /\ log = <<[level |-> "info", msg |-> "processing_page"],
               [level |-> "info", msg |-> "accessing"],
               [level |-> "error", msg |-> "error_accessing"]>>
    /\ trace = <<[op |-> "call", url |-> start_url],
                 [op |-> "page", url |-> start_url, ok |-> FALSE, doc |-> <<>>],
                 [op |-> "return", value |-> 0]>>

NextDecrement == Decrement

SpecDecrement == InitDecrement /\ [][NextDecrement]_vars

\* documents with labels that sanitize to one name
SameNamePages ==
    { <<FileName(<<"M", "i", "/">>), PdfString(<<"7">>)>>,
      <<FileName(<<" ", "M", "i", "_">>), PdfString(<<"8", " ">>)>>,
      <<FileName(<<"M", "i", "/">>), PdfString(<<"7">>),
        FileName(<<" ", "M", "i", "_">>), PdfString(<<"8", " ">>)>> }

\* download_documents from item=2, all documents, the directory present
InitSameName ==
    /\ Init
    /\ start_url = ItemUrl(2)
    /\ max_pages = None
    /\ filter_word = None
    /\ dir_exists

NextSameName ==
    \/ EnterLoop
    \/ ExitLoop
    \/ DirPresent
    \/ GetPageFail
    \/ GetPageOk(SameNamePages)
    \/ GetPdfFail
    \/ GetPdfOk
    \/ OpenFail
    \/ WriteFail
    \/ SaveOk
    \/ ReturnCount
    \/ Accumulate
    \/ Decrement
    \/ Sleep
    \/ NoSleep
    \/ Report

SpecSameName == InitSameName /\ [][NextSameName]_vars

\* text of the fileName element given to the sanitization
LabelChars == InvalidChars \cup {"_", "a", " ", "."}

LabelTexts == SeqsUpTo(LabelChars, MaxLabel)

\* extract_pdfs at line 85, the only file of the page just fetched
InitSanitize ==
    /\ start_url = ItemUrl(1)
    /\ max_pages = None
    /\ filter_word = None
    /\ current_url = Some(start_url)
    /\ page_count = 1
    /\ total_downloads = 0
    /\ pc = "save"
    /\ \E text \in LabelTexts :
         soup = <<FileName(text), PdfString(<<"7">>)>>
    /\ file_elements = <<1>>
    /\ idx = 1
    /\ download_count = 0
    /\ pdf_response = Some(Body(<<"7">>))
    /\ ret = 0
    /\ dir_exists = TRUE
    /\ fs = <<>>
    /\ log = <<[level |-> "info", msg |-> "processing_page"],
               [level |-> "info", msg |-> "accessing"],
               [level |-> "info", msg |-> "downloading"]>>
    /\ trace = <<[op |-> "call", url |-> start_url],
                 [op |-> "page", url |-> start_url, ok |-> TRUE, doc |-> soup],
                 [op |-> "file", i |-> 1, url |-> PdfUrl(<<"7">>), ok |-> TRUE]>>

NextSanitize ==
    \/ OpenFail
    \/ WriteFail
    \/ SaveOk

SpecSanitize == InitSanitize /\ [][NextSanitize]_vars

\* ============================================================ properties
PageEvents == SelectSeq(trace, LAMBDA e : e.op = "page")

LastPage == PageEvents[Len(PageEvents)]

\* positions in trace of the events of one kind
Positions(op) == {k \in 1..Len(trace) : trace[k].op = op}

Max(S) == CHOOSE x \in S : \A y \in S : y <= x

\* positions in a query of the pairs named "item"
ItemPositions(url) == {j \in 1..Len(url.query) : url.query[j][1] = "item"}

\* An address of the data model has at most one pair named "item"; its
\* item parameter is that pair's value.
WellFormedItem(url) == Cardinality(ItemPositions(url)) = 1

ItemText(url) ==
    UnquoteStr(url.query[CHOOSE j \in ItemPositions(url) : TRUE][2])

HasItemIndex(url) == WellFormedItem(url) /\ IsIntStr(ItemText(url))

ItemIndex(url) == IntOf(ItemText(url))

VisitedItems == [k \in 1..Len(PageEvents) |-> ItemIndex(PageEvents[k].url)]

Countdown(n, low) == [k \in 1..(n - low + 1) |-> n - k + 1]

Messages(msg) == {k \in 1..Len(log) : log[k].msg = msg}

CeilingNotReached ==
    IF max_pages = None THEN TRUE ELSE page_count < Val(max_pages)

\* file references of a document that extract_pdfs would fetch
Selected(doc) ==
    {p \in 1..Len(doc) :
        /\ doc[p].cls = "fileName"
        /\ should_download(Strip(doc[p].text))
        /\ find_next(doc, p) # None}

StartIndex == ItemIndex(start_url)

\* C1 as stated: a traversal started at item index n >= 2 whose page
\* ceiling is not reached processes exactly the pages n, n-1, ..., 2 and
\* never calls the page extractor on item=1.
C1_StopsAtTwo ==
    (pc = "done" /\ HasItemIndex(start_url) /\ CeilingNotReached)
      => (StartIndex >= 2 => VisitedItems = Countdown(StartIndex, 2))

\* C1 amended: a traversal started at item index n >= 1 whose page ceiling
\* is not reached processes exactly the pages n, n-1, ..., 1 (n pages), the
\* last being item=1, and stops by address exhaustion; from item=3 with
\* max_pages=5, one matching file on item=3 whose fetch succeeds and none
\* on item=2 and item=1, it processes 3 pages and downloads 1 file.
C1_StopsAtOne ==
    (pc = "done" /\ HasItemIndex(start_url) /\ CeilingNotReached)
      => (StartIndex >= 1 =>
            /\ VisitedItems = Countdown(StartIndex, 1)
            /\ page_count = StartIndex
            /\ current_url = None
            /\ Messages("no_more_pages") # {}
            /\ Messages("reached_maximum") = {}
            /\ (/\ StartIndex = 3
                /\ max_pages = Some(5)
                /\ Cardinality(Selected(PageEvents[1].doc)) = 1
                /\ Selected(PageEvents[2].doc) = {}
                /\ Selected(PageEvents[3].doc) = {}
                /\ \E k \in Positions("file") : trace[k].ok)
               => (page_count = 3 /\ total_downloads = 1))

C1_Witness ==
    /\ pc = "done"
    /\ start_url = ItemUrl(3)
    /\ max_pages = Some(5)
    /\ VisitedItems = <<3, 2, 1>>
    /\ Cardinality(Selected(PageEvents[1].doc)) = 1
    /\ Selected(PageEvents[2].doc) = {}
    /\ total_downloads = 1
    /\ Messages("no_more_pages") # {}

\* C2 as stated: every sleep is followed by another page extraction, so
\* when the run is over no sleep lies after the final processed page.
C2_NoSleepAfterFinalPage ==
    pc = "done"
      => (Positions("sleep") = {}
            \/ Max(Positions("sleep")) < Max(Positions("page")))

\* the address most recently given to decrement_item_in_url
DecInput == LastPage.url

OnlyItemChanged(in, out, n) ==
    /\ out.scheme = in.scheme
    /\ out.netloc = in.netloc
    /\ out.path = in.path
    /\ Len(out.query) = Len(in.query)
    /\ \A j \in 1..Len(in.query) :
         IF j \in ItemPositions(in)
         THEN /\ out.query[j][1] = "item"
              /\ IsIntStr(out.query[j][2])
              /\ IntOf(out.query[j][2]) = n
         ELSE out.query[j] = in.query[j]

\* C3 as stated: for an address whose item parameter holds an integer
\* n > 1, decrement returns an address whose item index is n-1 and whose
\* scheme, host, path and other query parameters (values and order,
\* blank values and repeated names included) are those of the input.
C3_OnlyItemChanges ==
    (pc = "delay" /\ HasItemIndex(DecInput))
      => (ItemIndex(DecInput) > 1
            => /\ current_url # None
               /\ OnlyItemChanged(DecInput, Val(current_url),
                                  ItemIndex(DecInput) - 1))

\* C4: for an address whose item index is an integer n <= 1, or that has
\* no item parameter, or whose item parameter does not parse as an
\* integer, decrement returns None; it never returns an address whose item
\* index is 0 or below.
C4_ReturnsNone ==
    pc = "delay"
      => /\ (ItemPositions(DecInput) = {}) => current_url = None
         /\ (WellFormedItem(DecInput) /\ ~IsIntStr(ItemText(DecInput)))
              => current_url = None
         /\ (HasItemIndex(DecInput) /\ ItemIndex(DecInput) <= 1)
              => current_url = None
         /\ current_url # None
              => /\ HasItemIndex(Val(current_url))
                 /\ ItemIndex(Val(current_url)) >= 1

C4_Witness ==
    /\ pc = "delay"
    /\ HasItemIndex(DecInput)
    /\ ItemIndex(DecInput) <= 0
    /\ Len(DecInput.query) > 1
    /\ current_url = None

\* C5: with max_pages = m >= 1 and a valid start address the driver never
\* processes more than m pages; started at item index n >= m it processes
\* exactly m pages and reports that the maximum was reached.
C5_Ceiling ==
    (/\ max_pages # None
     /\ HasItemIndex(start_url))
      => ((Val(max_pages) >= 1 /\ StartIndex >= 1)
            => /\ page_count <= Val(max_pages)
               /\ Len(PageEvents) <= Val(max_pages)
               /\ (pc = "done" /\ StartIndex >= Val(max_pages))
                    => /\ page_count = Val(max_pages)
                       /\ Len(PageEvents) = Val(max_pages)
                       /\ Messages("reached_maximum") # {}
                       /\ Messages("no_more_pages") = {})

C5_Witness ==
    /\ pc = "done"
    /\ max_pages = Some(2)
    /\ start_url = ItemUrl(3)
    /\ page_count = 2
    /\ current_url = Some(ItemUrl(1))
    /\ Messages("reached_maximum") # {}

CeilingReached ==
    IF max_pages = None THEN FALSE ELSE page_count >= Val(max_pages)

\* C6: with max_pages unset or positive, a finished run has reported
\* exactly one termination reason: the maximum was reached when max_pages
\* is set and the page counter has reached it, and no more pages (the
\* address being exhausted) otherwise.
C6_OneReason ==
    (pc = "done" /\ (IF max_pages = None THEN TRUE ELSE Val(max_pages) >= 1))
      => /\ Cardinality(Messages("reached_maximum")
                          \cup Messages("no_more_pages")) = 1
         /\ Messages("reached_maximum") # {} <=> CeilingReached
         /\ Messages("no_more_pages") # {}
              <=> (~CeilingReached /\ current_url = None)

C6_Witness ==
    /\ pc = "done"
    /\ CeilingReached
    /\ current_url = None
    /\ Messages("reached_maximum") # {}
    /\ Messages("no_more_pages") = {}

\* events of the page being extracted, or extracted last
CurEvents(op) ==
    {k \in Positions(op) : \A q \in Positions("page") : q < k}

FileEv(i) == {k \in CurEvents("file") : trace[k].i = i}

WriteEv(i) == {k \in CurEvents("write") : trace[k].i = i}

\* a page that yields nothing: fetch failed, no fileName element, or no
\* label containing the filter word
PageLevelFailure(e) ==
    \/ ~e.ok
    \/ \A p \in 1..Len(e.doc) :
         e.doc[p].cls = "fileName" => ~should_download(Strip(e.doc[p].text))

\* C7: a page whose fetch fails, that has no fileName element or none
\* whose label matches the filter makes extract_pdfs fetch and write
\* nothing and return 0, leaves total_downloads as it was, and is followed
\* by the decrement of its address like any other page.
C7_PageFailureContinues ==
    \A k \in 1..Len(PageEvents) :
      LET e == PageEvents[k]
      IN  PageLevelFailure(e) =>
            IF k < Len(PageEvents)
            THEN /\ decrement_item_in_url(e.url) # None
                 /\ PageEvents[k + 1].url = Val(decrement_item_in_url(e.url))
            ELSE /\ CurEvents("file") = {}
                 /\ CurEvents("write") = {}
                 /\ pc # "save"
                 /\ pc = "accumulate" => ret = 0
                 /\ pc = "decrement" => current_url = Some(e.url)
                 /\ pc \in {"delay", "while", "makedirs", "get_page",
                            "report", "done"}
                      => current_url = decrement_item_in_url(e.url)
                 /\ pc \in {"decrement", "delay", "while", "makedirs",
                            "get_page", "report", "done"}
                      => total_downloads = Cardinality(Positions("write"))

C7_Witness ==
    /\ pc = "done"
    /\ Len(PageEvents) = 3
    /\ ~PageEvents[1].ok
    /\ PageEvents[2].ok /\ PageEvents[2].doc = <<>>
    /\ PageEvents[3].ok /\ PageEvents[3].doc # <<>>
    /\ PageLevelFailure(PageEvents[3])
    /\ total_downloads = 0

\* the page whose extraction has just returned normally
Extracted == pc = "accumulate" /\ PageEvents # <<>> /\ LastPage.ok

Doc == LastPage.doc

Markers == find_all(Doc, 1)

\* C8: within a page a failed file fetch skips that file only: every
\* selected file reference is fetched once, is written exactly when its
\* fetch succeeded, and extract_pdfs returns the number of files written.
C8_FailureSkipsOneFile ==
    Extracted =>
      /\ \A i \in 1..Len(Markers) :
           Markers[i] \in Selected(Doc) =>
             /\ Cardinality(FileEv(i)) = 1
             /\ \A k \in FileEv(i) :
                  Cardinality(WriteEv(i)) = IF trace[k].ok THEN 1 ELSE 0
      /\ ret = Cardinality(CurEvents("write"))
      /\ ret = Cardinality({k \in CurEvents("file") : trace[k].ok})

C8_Witness ==
    /\ Extracted
    /\ Len(Markers) = 3
    /\ \E k \in FileEv(2) : ~trace[k].ok
    /\ WriteEv(1) # {}
    /\ WriteEv(3) # {}
    /\ ret = 2

\* case-insensitive containment of the filter word, when one is given
LabelMatches(label) ==
    IF filter_word = None THEN TRUE
    ELSE Contains(LowerStr(Val(filter_word)), LowerStr(label))

\* C9: with a filter word, a file reference is fetched (and, the fetch
\* succeeding, written) exactly when its label contains the word without
\* regard to case, and no other reference is fetched or written; without
\* a filter word every reference that has a document identifier is
\* fetched.
C9_FilterPolicy ==
    Extracted =>
      \A i \in 1..Len(Markers) :
        LET label == Strip(Doc[Markers[i]].text)
            hasId == \E j \in (Markers[i] + 1)..Len(Doc) : Doc[j].cls = "pdfString"
        IN  /\ FileEv(i) # {} <=> (hasId /\ LabelMatches(label))
            /\ WriteEv(i) # {} <=> (\E k \in FileEv(i) : trace[k].ok)

C9_Witness ==
    /\ Extracted
    /\ filter_word = Some(<<"m", "I">>)
    /\ Doc = <<FileName(<<"A", "g">>), FileName(<<"M", "i", "/">>),
               PdfString(<<"7">>)>>
    /\ FileEv(1) = {}
    /\ WriteEv(2) # {}
    /\ ret = 1

\* the first pdfString element after position p
FirstIdAfter(doc, p) ==
    CHOOSE j \in (p + 1)..Len(doc) :
      /\ doc[j].cls = "pdfString"
      /\ \A m \in (p + 1)..(j - 1) : doc[m].cls # "pdfString"

Errors == {k \in 1..Len(log) : log[k].level = "error"}

\* C10: the document identifier of a fetched file is the text of the
\* first pdfString element after its fileName element; a fileName element
\* with no pdfString element after it causes no fetch, no write and no
\* error, and the other fileName elements are still processed.
C10_Pairing ==
    /\ \A k \in CurEvents("file") :
         trace[k].url =
           PdfUrl(Strip(Doc[FirstIdAfter(Doc, Markers[trace[k].i])].text))
    /\ Extracted =>
         /\ \A i \in 1..Len(Markers) :
              IF \E j \in (Markers[i] + 1)..Len(Doc) : Doc[j].cls = "pdfString"
              THEN LabelMatches(Strip(Doc[Markers[i]].text)) => FileEv(i) # {}
              ELSE FileEv(i) = {} /\ WriteEv(i) = {}
         /\ Cardinality(Errors)
              = Cardinality({k \in CurEvents("file") : ~trace[k].ok})

C10_Witness ==
    /\ Extracted
    /\ Doc = <<FileName(<<"M", "i", "/">>), PdfString(<<"8", " ">>),
               PdfString(<<"7">>), FileName(<<"A", "g">>)>>
    /\ filter_word = None
    /\ \E k \in FileEv(1) : trace[k].url = PdfUrl(<<"8">>)
    /\ FileEv(2) = {}
    /\ ret = 1

\* the files that the writes completed among the first k events produce
RECURSIVE WrittenUpTo(_)
WrittenUpTo(k) ==
    IF k = 0 THEN <<>>
    ELSE IF trace[k].op = "write"
         THEN Put(WrittenUpTo(k - 1), trace[k].path, trace[k].body)
         ELSE WrittenUpTo(k - 1)

\* C11 as stated: a write is reached only right after the successful fetch
\* of the same file reference, and a download that ends in failure leaves
\* nothing behind: the directory holds exactly what the completed writes
\* put there, no new, truncated or modified file besides.
C11_NoPartialFile ==
    /\ \A k \in Positions("write") :
         /\ k > 1
         /\ trace[k - 1].op = "file"
         /\ trace[k - 1].ok
         /\ trace[k - 1].i = trace[k].i
    /\ fs = WrittenUpTo(Len(trace))

\* C12 as stated: a filesystem failure propagates out of the traversal:
\* no step follows it, and the step that fails leaves every file already
\* in the output directory as it was.
C12_FsFailurePropagates ==
    [][/\ pc # "raised"
       /\ pc' = "raised"
            => \A p \in DOMAIN fs : p \in DOMAIN fs' /\ fs'[p] = fs[p]]_vars

\* the characters C13 lists
ListedChars == {"\\", "/", "*", "?", ":", "\"", "<", ">", "|"}

\* the label and the file name of a write
LabelOf(k) == Strip(soup[file_elements[trace[k].i]].text)

NameOf(k) == SubSeq(trace[k].path, Len(OutputDir) + 2, Len(trace[k].path))

\* C13: the sanitized name has the length of the label, holds none of the
\* listed characters, has an underscore at every position where the label
\* has a listed character, and equals the label at every other position.
C13_Sanitized ==
    \A k \in Positions("write") :
      /\ trace[k].path = OutputDir \o <<"/">> \o NameOf(k)
      /\ Len(NameOf(k)) = Len(LabelOf(k))
      /\ \A j \in 1..Len(LabelOf(k)) :
           /\ NameOf(k)[j] \notin ListedChars
           /\ LabelOf(k)[j] \in ListedChars => NameOf(k)[j] = "_"
           /\ LabelOf(k)[j] \notin ListedChars => NameOf(k)[j] = LabelOf(k)[j]

C13_Witness ==
    /\ soup[1].text = <<":", "_", "a">>
    /\ \E k \in Positions("write") : NameOf(k) = <<"_", "_", "a">>
    /\ DOMAIN fs = {<<"o", "/", "_", "_", "a">>}

\* C14 as stated: from a start address with a positive item index the
\* driver eventually reaches DONE.
C14_ReachesDone ==
    (HasItemIndex(start_url) /\ StartIndex >= 1) => <>(pc = "done")

\* the pages processed so far are n, n-1, ... and at most n of them
CountsDown ==
    HasItemIndex(start_url) =>
      (StartIndex >= 1 =>
         /\ page_count <= StartIndex
         /\ Len(PageEvents) <= StartIndex
         /\ \A k \in 1..Len(PageEvents) :
              /\ HasItemIndex(PageEvents[k].url)
              /\ ItemIndex(PageEvents[k].url) = StartIndex - k + 1
              /\ ItemIndex(PageEvents[k].url) >= 1)

\* C14 amended: from a start address with a positive item index n and for
\* every max_pages, each fetch returning and no filesystem failure
\* occurring, the driver eventually reaches DONE (a filesystem failure ends
\* the traversal with the propagated error instead); in every case it
\* calls the page extractor at most n times, on the item indices n, n-1,
\* n-2, ..., never twice on one address and never below 1.
C14_Terminates == <>(pc \in {"done", "raised"} /\ CountsDown)

C14_Witness ==
    /\ pc = "done"
    /\ max_pages = None
    /\ start_url = ItemUrl(MaxItem)
    /\ VisitedItems = Countdown(MaxItem, 1)
    /\ total_downloads = MaxItem

\* the sum of the values returned by the calls of extract_pdfs among the
\* first k events
RECURSIVE ReturnedUpTo(_)
ReturnedUpTo(k) ==
    IF k = 0 THEN 0
    ELSE IF trace[k].op = "return"
         THEN ReturnedUpTo(k - 1) + trace[k].value
         ELSE ReturnedUpTo(k - 1)

\* C15: page_count is the number of calls of extract_pdfs started and
\* total_downloads the sum of the values they returned (the value returned
\* last being added by line 164); neither counter decreases; the final
\* message reports these two values.
C15_Accounting ==
    /\ [](/\ page_count = Cardinality(Positions("call"))
          /\ total_downloads + (IF pc = "accumulate" THEN ret ELSE 0)
               = ReturnedUpTo(Len(trace))
          /\ pc = "done"
               => /\ log[Len(log)].msg = "download_complete"
                  /\ log[Len(log)].pages = Cardinality(Positions("call"))
                  /\ log[Len(log)].downloads = ReturnedUpTo(Len(trace)))
    /\ [][page_count' >= page_count /\ total_downloads' >= total_downloads]_vars

C15_Witness ==
    /\ pc = "done"
    /\ page_count = 3
    /\ total_downloads = 2
    /\ Cardinality(Positions("return")) = 3
    /\ log[Len(log)].pages = 3
    /\ log[Len(log)].downloads = 2

\* the document of the page during which event k happened
PageDocAt(k) == trace[Max({q \in Positions("page") : q < k})].doc

\* label and identifier of the file reference of a file event
RefLabel(k) == Strip(PageDocAt(k)[find_all(PageDocAt(k), 1)[trace[k].i]].text)

RefId(k) == trace[k].url.query[2][2]

\* the successful fetches whose label sanitizes to the name of a path
FetchedFor(path) ==
    {k \in Positions("file") :
       trace[k].ok /\ OutputDir \o <<"/">> \o clean_filename(RefLabel(k)) = path}

\* C16: no download having failed at the write, the file under a sanitized
\* name holds the body of the most recent successfully fetched file
\* reference whose label sanitizes to that name, earlier files of that name
\* being replaced; every write is counted, so the count can exceed the
\* number of files.
C16_Overwrite ==
    pc \notin {"save", "raised"} =>
      /\ \A path \in DOMAIN fs :
           /\ FetchedFor(path) # {}
           /\ fs[path] = Body(RefId(Max(FetchedFor(path))))
      /\ \A k \in Positions("file") :
           trace[k].ok => OutputDir \o <<"/">> \o clean_filename(RefLabel(k)) \in DOMAIN fs
      /\ Cardinality(DOMAIN fs) <= Cardinality(Positions("write"))
      /\ pc = "done" => total_downloads = Cardinality(Positions("write"))

C16_Witness ==
    /\ pc = "done"
    /\ page_count = 2
    /\ total_downloads = 3
    /\ DOMAIN fs = {<<"o", "/", "M", "i", "_">>}
    /\ fs[<<"o", "/", "M", "i", "_">>] = Body(<<"8">>)
    /\ Cardinality({k \in Positions("write") : trace[k].body = Body(<<"7">>)}) = 2

\* the error diagnostics of decrement_item_in_url
Diagnostics == Messages("no_item") \cup Messages("parse_error")

\* the item parameter is missing, or does not parse as an integer
Malformed(url) ==
    IF ItemPositions(url) = {} THEN TRUE ELSE ~IsIntStr(ItemText(url))

\* C17: a malformed page address ends the traversal: the ceiling not being
\* reached, the driver stops right after that page and reports that no
\* page is left; decrement logs an error diagnostic exactly when the item
\* parameter is missing or unparseable, and none when the index is <= 1 or
\* the decrement succeeds.
C17_MalformedAddress ==
    /\ (pc = "done" /\ Malformed(start_url) /\ CeilingNotReached)
         => /\ page_count = 1
            /\ Len(PageEvents) = 1
            /\ current_url = None
            /\ Messages("no_more_pages") # {}
            /\ Messages("reached_maximum") = {}
    /\ Cardinality(Diagnostics) <= 1
    /\ Diagnostics # {}
         <=> /\ PageEvents # <<>>
             /\ Malformed(LastPage.url)
             /\ pc \in {"delay", "while", "report", "done"}
    /\ pc = "delay" =>
         /\ Len(log) \in Diagnostics <=> Malformed(DecInput)
         /\ Len(log) \in Diagnostics => current_url = None

C17_Witness ==
    /\ pc = "done"
    /\ start_url = Url(<< <<"item", <<"x">>>> >>)
    /\ max_pages = Some(2)
    /\ page_count = 1
    /\ Messages("parse_error") # {}
    /\ Messages("no_more_pages") # {}

\* the characters that separate the segments of a path
Separators == {"/", "\\"}

\* the path names an entry of the output directory itself
DirectChild(path) ==
    /\ Len(path) > Len(OutputDir) + 1
    /\ SubSeq(path, 1, Len(OutputDir) + 1) = OutputDir \o <<"/">>
    /\ LET name == SubSeq(path, Len(OutputDir) + 2, Len(path))
       IN  /\ \A j \in 1..Len(name) : name[j] \notin Separators
           /\ name \notin {<<".">>, <<".", ".">>}

\* C18: whatever the label, every file that extract_pdfs creates or
\* modifies (written in full, or left truncated by a failed write) is a
\* direct child of the output directory.
C18_Confined ==
    /\ \A path \in DOMAIN fs : DirectChild(path)
    /\ \A k \in Positions("write") : DirectChild(trace[k].path)

C18_Witness ==
    /\ soup[1].text = <<"/", ".", ".">>
    /\ DOMAIN fs = {<<"o", "/", "_", ".", ".">>}
    /\ Positions("write") # {}

\* C19: with max_pages = 0 the driver processes no page, makes no fetch,
\* write or sleep, and finishes with both counters 0.
C19_ZeroCeiling ==
    max_pages = Some(0) =>
      /\ page_count = 0
      /\ total_downloads = 0
      /\ trace = <<>>
      /\ fs = <<>>
      /\ pc \in {"while", "report", "done"}
      /\ pc = "done" =>
           /\ log[Len(log)].msg = "download_complete"
           /\ log[Len(log)].pages = 0
           /\ log[Len(log)].downloads = 0

C19_Witness ==
    /\ pc = "done"
    /\ max_pages = Some(0)
    /\ start_url = ItemUrl(MaxItem)
    /\ page_count = 0
    /\ total_downloads = 0

====
